---------------------------- MODULE Spec2Model ----------------------------
(***************************************************************************)
(* Model of `impl Display for CreateTable` (src/src/ast/dml.rs).           *)
(*                                                                         *)
(* Text is a sequence of atoms.  An atom is a one-character string for     *)
(* the characters the renderer's own literals are made of besides letters  *)
(* (" ", "(", ")", ",", "'", "=", "{", "}"), or a word without any of      *)
(* them (a keyword such as "CREATE", or the rendering of an opaque         *)
(* sub-node such as an identifier, an expression or a query).              *)
(*                                                                         *)
(* The sink holds a sequence of segments [c |-> clause, t |-> text]: the   *)
(* text the renderer wrote for one clause, in the order written.           *)
(***************************************************************************)
EXTENDS Naturals, Integers, Sequences, FiniteSets, TLC

VARIABLES ct, pc, out, result, rejected

vars == <<ct, pc, out, result, rejected>>

\* ---------------------------------------------------------------- bounds

MaxPopulated == 2
MaxList == 2
MaxNameLen == 4
MaxBuckets == 4

\* --------------------------------------------------------------- options

None == <<>>

Some(x) == <<x>>

IsSome(o) == Len(o) = 1

IsNone(o) == Len(o) = 0

\* ------------------------------------------------------------ text tools

RECURSIVE display_separated(_, _)
display_separated(items, sep) ==
    IF Len(items) = 0 THEN <<>>
    ELSE IF Len(items) = 1 THEN <<items[1]>>
    ELSE <<items[1]>> \o sep \o display_separated(Tail(items), sep)

display_comma_separated(items) == display_separated(items, <<",", " ">>)

\* str::replace(from, to) with a one-character pattern.
RECURSIVE replace(_, _, _)
replace(s, from, to) ==
    IF Len(s) = 0 THEN <<>>
    ELSE (IF s[1] = from THEN to ELSE <<s[1]>>) \o replace(Tail(s), from, to)

Seg(clause, text) == [c |-> clause, t |-> text]

RECURSIVE Text(_)
Text(segs) == IF Len(segs) = 0 THEN <<>> ELSE segs[1].t \o Text(Tail(segs))

NAtoms(segs) == Len(Text(segs))

\* The first n atoms of segs, as segments (the last one possibly cut).
RECURSIVE TakeAtoms(_, _)
TakeAtoms(segs, n) ==
    IF n = 0 \/ Len(segs) = 0 THEN <<>>
    ELSE IF Len(segs[1].t) <= n
         THEN <<segs[1]>> \o TakeAtoms(Tail(segs), n - Len(segs[1].t))
         ELSE <<Seg(segs[1].c, SubSeq(segs[1].t, 1, n))>>

When(b, clause, text) == IF b THEN <<Seg(clause, text)>> ELSE <<>>

\* ------------------------------------------------- the writes of fmt

\* The header with TRANSIENT written before TEMPORARY.
W_Header_TransientFirst(c) ==
    <<Seg("CREATE", <<"CREATE", " ">>)>>
    \o When(c.or_replace, "OR REPLACE", <<"OR", " ", "REPLACE", " ">>)
    \o When(c.external, "EXTERNAL", <<"EXTERNAL", " ">>)
    \o When(IsSome(c.global), "GLOBAL|LOCAL",
            IF IsSome(c.global) /\ c.global[1]
            THEN <<"GLOBAL", " ">> ELSE <<"LOCAL", " ">>)
    \o When(c.transient, "TRANSIENT", <<"TRANSIENT", " ">>)
    \o When(c.temporary, "TEMPORARY", <<"TEMPORARY", " ">>)
    \o <<Seg("TABLE", <<"TABLE", " ">>)>>
    \o When(c.if_not_exists, "IF NOT EXISTS",
            <<"IF", " ", "NOT", " ", "EXISTS", " ">>)
    \o <<Seg("NAME", <<c.name>>)>>

\* dml.rs 116-134: one write! of the statement header.
W_Header(c) ==
    <<Seg("CREATE", <<"CREATE", " ">>)>>
    \o When(c.or_replace, "OR REPLACE", <<"OR", " ", "REPLACE", " ">>)
    \o When(c.external, "EXTERNAL", <<"EXTERNAL", " ">>)
    \o When(IsSome(c.global), "GLOBAL|LOCAL",
            IF IsSome(c.global) /\ c.global[1]
            THEN <<"GLOBAL", " ">> ELSE <<"LOCAL", " ">>)
    \o When(c.temporary, "TEMPORARY", <<"TEMPORARY", " ">>)
    \o When(c.transient, "TRANSIENT", <<"TRANSIENT", " ">>)
    \o <<Seg("TABLE", <<"TABLE", " ">>)>>
    \o When(c.if_not_exists, "IF NOT EXISTS",
            <<"IF", " ", "NOT", " ", "EXISTS", " ">>)
    \o <<Seg("NAME", <<c.name>>)>>

\* ON CLUSTER with "}" escaped the way "{" is, by a leading quote.
W_OnCluster_QuoteFirst(c) ==
    IF IsSome(c.on_cluster)
    THEN <<Seg("ON CLUSTER",
               <<" ", "ON", " ", "CLUSTER", " ">>
               \o replace(replace(c.on_cluster[1], "{", <<"'", "{">>),
                          "}", <<"'", "}">>))>>
    ELSE <<>>

\* dml.rs 135-141.
W_OnCluster(c) ==
    IF IsSome(c.on_cluster)
    THEN <<Seg("ON CLUSTER",
               <<" ", "ON", " ", "CLUSTER", " ">>
               \o replace(replace(c.on_cluster[1], "{", <<"'", "{">>),
                          "}", <<"}", "'">>))>>
    ELSE <<>>

\* The column block with the separator written whenever there is a constraint.
W_ColumnBlock_SeparatorAlways(c) ==
    IF Len(c.columns) # 0 \/ Len(c.constraints) # 0
    THEN <<Seg("COLUMNS",
               <<" ", "(">> \o display_comma_separated(c.columns)
               \o (IF Len(c.constraints) # 0 THEN <<",", " ">> ELSE <<>>)
               \o display_comma_separated(c.constraints) \o <<")">>)>>
    ELSE IF IsNone(c.query) /\ IsNone(c.like) /\ IsNone(c.clone)
         THEN <<Seg("COLUMNS", <<" ", "(", ")">>)>>
         ELSE <<>>

\* dml.rs 142-151.
W_ColumnBlock(c) ==
    IF Len(c.columns) # 0 \/ Len(c.constraints) # 0
    THEN <<Seg("COLUMNS",
               <<" ", "(">> \o display_comma_separated(c.columns)
               \o (IF Len(c.columns) # 0 /\ Len(c.constraints) # 0
                   THEN <<",", " ">> ELSE <<>>)
               \o display_comma_separated(c.constraints) \o <<")">>)>>
    ELSE IF IsNone(c.query) /\ IsNone(c.like) /\ IsNone(c.clone)
         THEN <<Seg("COLUMNS", <<" ", "(", ")">>)>>
         ELSE <<>>

\* dml.rs 153-155.
W_WithoutRowid(c) ==
    When(c.without_rowid, "WITHOUT ROWID", <<" ", "WITHOUT", " ", "ROWID">>)

\* dml.rs 158-160.
W_Like(c) ==
    IF IsSome(c.like) THEN <<Seg("LIKE", <<" ", "LIKE", " ", c.like[1]>>)>>
    ELSE <<>>

\* dml.rs 162-164.
W_Clone(c) ==
    IF IsSome(c.clone) THEN <<Seg("CLONE", <<" ", "CLONE", " ", c.clone[1]>>)>>
    ELSE <<>>

\* The distribution clause with INTO written for num_buckets >= 0.
W_HiveDistribution_ZeroBuckets(c) ==
    LET d == c.hive_distribution IN
    IF d.kind = "PARTITIONED"
    THEN <<Seg("HIVE DISTRIBUTION",
               <<" ", "PARTITIONED", " ", "BY", " ", "(">>
               \o display_comma_separated(d.columns) \o <<")">>)>>
    ELSE IF d.kind = "CLUSTERED"
    THEN <<Seg("HIVE DISTRIBUTION",
               <<" ", "CLUSTERED", " ", "BY", " ", "(">>
               \o display_comma_separated(d.columns) \o <<")">>
               \o (IF Len(d.sorted_by) # 0
                   THEN <<" ", "SORTED", " ", "BY", " ", "(">>
                        \o display_comma_separated(d.sorted_by) \o <<")">>
                   ELSE <<>>)
               \o (IF d.num_buckets >= 0
                   THEN <<" ", "INTO", " ", ToString(d.num_buckets), " ",
                          "BUCKETS">>
                   ELSE <<>>))>>
    ELSE IF d.kind = "SKEWED"
    THEN <<Seg("HIVE DISTRIBUTION",
               <<" ", "SKEWED", " ", "BY", " ", "(">>
               \o display_comma_separated(d.columns)
               \o <<")", ")", " ", "ON", " ", "(">>
               \o display_comma_separated(d.on) \o <<")">>
               \o (IF d.stored_as_directories
                   THEN <<" ", "STORED", " ", "AS", " ", "DIRECTORIES">>
                   ELSE <<>>))>>
    ELSE <<>>

\* dml.rs 166-199.
W_HiveDistribution(c) ==
    LET d == c.hive_distribution IN
    IF d.kind = "PARTITIONED"
    THEN <<Seg("HIVE DISTRIBUTION",
               <<" ", "PARTITIONED", " ", "BY", " ", "(">>
               \o display_comma_separated(d.columns) \o <<")">>)>>
    ELSE IF d.kind = "CLUSTERED"
    THEN <<Seg("HIVE DISTRIBUTION",
               <<" ", "CLUSTERED", " ", "BY", " ", "(">>
               \o display_comma_separated(d.columns) \o <<")">>
               \o (IF Len(d.sorted_by) # 0
                   THEN <<" ", "SORTED", " ", "BY", " ", "(">>
                        \o display_comma_separated(d.sorted_by) \o <<")">>
                   ELSE <<>>)
               \o (IF d.num_buckets > 0
                   THEN <<" ", "INTO", " ", ToString(d.num_buckets), " ",
                          "BUCKETS">>
                   ELSE <<>>))>>
    ELSE IF d.kind = "SKEWED"
    THEN <<Seg("HIVE DISTRIBUTION",
               <<" ", "SKEWED", " ", "BY", " ", "(">>
               \o display_comma_separated(d.columns)
               \o <<")", ")", " ", "ON", " ", "(">>
               \o display_comma_separated(d.on) \o <<")">>
               \o (IF d.stored_as_directories
                   THEN <<" ", "STORED", " ", "AS", " ", "DIRECTORIES">>
                   ELSE <<>>))>>
    ELSE <<>>

\* dml.rs 208-217.
W_RowFormat(c, h) ==
    IF IsNone(h.row_format) THEN <<>>
    ELSE LET r == h.row_format[1] IN
         IF r.kind = "SERDE"
         THEN <<Seg("ROW FORMAT",
                    <<" ", "ROW", " ", "FORMAT", " ", "SERDE", " ", "'">>
                    \o r.class \o <<"'">>)>>
         ELSE <<Seg("ROW FORMAT",
                    <<" ", "ROW", " ", "FORMAT", " ", "DELIMITED">>
                    \o (IF Len(r.delimiters) # 0
                        THEN <<" ">> \o display_separated(r.delimiters, <<" ">>)
                        ELSE <<>>))>>

\* dml.rs 218-230.
W_Storage(c, h) ==
    IF IsNone(h.storage) THEN <<>>
    ELSE LET s == h.storage[1] IN
         IF s.kind = "IOF"
         THEN <<Seg("HIVE STORED AS",
                    <<" ", "STORED", " ", "AS", " ", "INPUTFORMAT", " ",
                      s.input_format, " ", "OUTPUTFORMAT", " ",
                      s.output_format>>)>>
         ELSE IF s.kind = "FileFormat" /\ ~c.external
         THEN <<Seg("HIVE STORED AS",
                    <<" ", "STORED", " ", "AS", " ", s.format>>)>>
         ELSE <<>>

\* dml.rs 231-237.
W_SerdeProperties(c, h) ==
    IF IsSome(h.serde_properties)
    THEN <<Seg("SERDEPROPERTIES",
               <<" ", "WITH", " ", "SERDEPROPERTIES", " ", "(">>
               \o display_comma_separated(h.serde_properties[1]) \o <<")">>)>>
    ELSE <<>>

\* The Hive block's location written for an external table too.
W_HiveLocation_Ungated(c, h) ==
    IF IsSome(h.location)
    THEN <<Seg("HIVE LOCATION",
               <<" ", "LOCATION", " ", "'">> \o h.location[1] \o <<"'">>)>>
    ELSE <<>>

\* dml.rs 238-242.
W_HiveLocation(c, h) ==
    IF ~c.external /\ IsSome(h.location)
    THEN <<Seg("HIVE LOCATION",
               <<" ", "LOCATION", " ", "'">> \o h.location[1] \o <<"'">>)>>
    ELSE <<>>

\* dml.rs 201-243.
W_HiveFormat(c) ==
    IF IsSome(c.hive_formats)
    THEN LET h == c.hive_formats[1] IN
         W_RowFormat(c, h) \o W_Storage(c, h) \o W_SerdeProperties(c, h)
         \o W_HiveLocation(c, h)
    ELSE <<>>

\* dml.rs 245-247: written before location is unwrapped.
W_ExternalStoredAs(c) ==
    IF c.external /\ IsSome(c.file_format)
    THEN <<Seg("EXT STORED AS",
               <<" ", "STORED", " ", "AS", " ", c.file_format[1]>>)>>
    ELSE <<>>

\* dml.rs 248: self.location.as_ref().unwrap() panics on None.
UnwrapPanics(c) == c.external /\ IsNone(c.location)

\* dml.rs 248.
W_ExternalLocation(c) ==
    IF c.external /\ IsSome(c.location)
    THEN <<Seg("EXT LOCATION",
               <<" ", "LOCATION", " ", "'">> \o c.location[1] \o <<"'">>)>>
    ELSE <<>>

\* dml.rs 250-256.
W_TblProperties(c) ==
    IF Len(c.table_properties) # 0
    THEN <<Seg("TBLPROPERTIES",
               <<" ", "TBLPROPERTIES", " ", "(">>
               \o display_comma_separated(c.table_properties) \o <<")">>)>>
    ELSE <<>>

\* dml.rs 257-259.
W_WithOptions(c) ==
    IF Len(c.with_options) # 0
    THEN <<Seg("WITH",
               <<" ", "WITH", " ", "(">>
               \o display_comma_separated(c.with_options) \o <<")">>)>>
    ELSE <<>>

\* dml.rs 260-262.
W_Engine(c) ==
    IF IsSome(c.engine)
    THEN <<Seg("ENGINE", <<" ", "ENGINE", "=", c.engine[1]>>)>>
    ELSE <<>>

\* dml.rs 263-265.
W_Comment(c) ==
    IF IsSome(c.comment)
    THEN <<Seg("COMMENT",
               <<" ", "COMMENT", " ", "'">> \o c.comment[1] \o <<"'">>)>>
    ELSE <<>>

\* dml.rs 266-268.
W_AutoIncrement(c) ==
    IF IsSome(c.auto_increment_offset)
    THEN <<Seg("AUTO_INCREMENT",
               <<" ", "AUTO_INCREMENT", " ",
                 ToString(c.auto_increment_offset[1])>>)>>
    ELSE <<>>

\* dml.rs 269-271.
W_PrimaryKey(c) ==
    IF IsSome(c.primary_key)
    THEN <<Seg("PRIMARY KEY",
               <<" ", "PRIMARY", " ", "KEY", " ", c.primary_key[1]>>)>>
    ELSE <<>>

\* dml.rs 272-274.
W_OrderBy(c) ==
    IF IsSome(c.order_by)
    THEN <<Seg("ORDER BY", <<" ", "ORDER", " ", "BY", " ", c.order_by[1]>>)>>
    ELSE <<>>

\* dml.rs 275-277.
W_PartitionBy(c) ==
    IF IsSome(c.partition_by)
    THEN <<Seg("PARTITION BY",
               <<" ", "PARTITION", " ", "BY", " ", c.partition_by[1]>>)>>
    ELSE <<>>

\* dml.rs 278-284.
W_ClusterBy(c) ==
    IF IsSome(c.cluster_by)
    THEN <<Seg("CLUSTER BY",
               <<" ", "CLUSTER", " ", "BY", " ">>
               \o display_comma_separated(c.cluster_by[1]))>>
    ELSE <<>>

\* dml.rs 285-291.
W_Options(c) ==
    IF IsSome(c.options)
    THEN <<Seg("OPTIONS",
               <<" ", "OPTIONS", "(">>
               \o display_comma_separated(c.options[1]) \o <<")">>)>>
    ELSE <<>>

\* dml.rs 292-294.
W_Query(c) ==
    IF IsSome(c.query) THEN <<Seg("AS", <<" ", "AS", " ", c.query[1]>>)>>
    ELSE <<>>

\* dml.rs 295-297.
W_DefaultCharset(c) ==
    IF IsSome(c.default_charset)
    THEN <<Seg("DEFAULT CHARSET",
               <<" ", "DEFAULT", " ", "CHARSET", "=">> \o c.default_charset[1])>>
    ELSE <<>>

\* dml.rs 298-300.
W_Collation(c) ==
    IF IsSome(c.collation)
    THEN <<Seg("COLLATE", <<" ", "COLLATE", "=">> \o c.collation[1])>>
    ELSE <<>>

\* ON COMMIT without the is_some() guard: the separator is always written.
W_OnCommit_Unguarded(c) ==
    LET on_commit ==
            IF IsNone(c.on_commit) THEN <<>>
            ELSE IF c.on_commit[1] = "DeleteRows"
            THEN <<"ON", " ", "COMMIT", " ", "DELETE", " ", "ROWS">>
            ELSE IF c.on_commit[1] = "PreserveRows"
            THEN <<"ON", " ", "COMMIT", " ", "PRESERVE", " ", "ROWS">>
            ELSE <<"ON", " ", "COMMIT", " ", "DROP">>
    IN <<Seg("ON COMMIT", <<" ">> \o on_commit)>>

\* dml.rs 302-310.
W_OnCommit(c) ==
    IF IsSome(c.on_commit)
    THEN LET on_commit ==
                 IF c.on_commit[1] = "DeleteRows"
                 THEN <<"ON", " ", "COMMIT", " ", "DELETE", " ", "ROWS">>
                 ELSE IF c.on_commit[1] = "PreserveRows"
                 THEN <<"ON", " ", "COMMIT", " ", "PRESERVE", " ", "ROWS">>
                 ELSE <<"ON", " ", "COMMIT", " ", "DROP">>
         IN <<Seg("ON COMMIT", <<" ">> \o on_commit)>>
    ELSE <<>>

\* dml.rs 311-313.
W_Strict(c) == When(c.strict, "STRICT", <<" ", "STRICT">>)


\* The text of a rendering that runs to its end (dml.rs 116-313 in order).
W_All(c) ==
    W_Header(c) \o W_OnCluster(c) \o W_ColumnBlock(c) \o W_WithoutRowid(c)
    \o W_Like(c) \o W_Clone(c) \o W_HiveDistribution(c) \o W_HiveFormat(c)
    \o W_ExternalStoredAs(c) \o W_ExternalLocation(c) \o W_TblProperties(c)
    \o W_WithOptions(c) \o W_Engine(c) \o W_Comment(c) \o W_AutoIncrement(c)
    \o W_PrimaryKey(c) \o W_OrderBy(c) \o W_PartitionBy(c) \o W_ClusterBy(c)
    \o W_Options(c) \o W_Query(c) \o W_DefaultCharset(c) \o W_Collation(c)
    \o W_OnCommit(c) \o W_Strict(c)

\* ------------------------------------------------- CreateTable values

Items(p, n) == [i \in 1..n |-> p \o ToString(i)]

NoDistribution ==
    [kind |-> "NONE", columns |-> <<>>, sorted_by |-> <<>>, num_buckets |-> 0,
     on |-> <<>>, stored_as_directories |-> FALSE]

Partitioned(cols) ==
    [NoDistribution EXCEPT !.kind = "PARTITIONED", !.columns = cols]

Clustered(cols, sorted, n) ==
    [NoDistribution EXCEPT !.kind = "CLUSTERED", !.columns = cols,
                           !.sorted_by = sorted, !.num_buckets = n]

Skewed(cols, on, dirs) ==
    [NoDistribution EXCEPT !.kind = "SKEWED", !.columns = cols, !.on = on,
                           !.stored_as_directories = dirs]

Serde(class) == [kind |-> "SERDE", class |-> class, delimiters |-> <<>>]

Delimited(ds) == [kind |-> "DELIMITED", class |-> <<>>, delimiters |-> ds]

IOF(i, o) ==
    [kind |-> "IOF", input_format |-> i, output_format |-> o, format |-> ""]

FileFormat(f) ==
    [kind |-> "FileFormat", input_format |-> "", output_format |-> "",
     format |-> f]

HiveFormat(r, sp, st, l) ==
    [row_format |-> r, serde_properties |-> sp, storage |-> st, location |-> l]

\* A table with a name and nothing else.
Base ==
    [or_replace |-> FALSE, temporary |-> FALSE, external |-> FALSE,
     global |-> None, if_not_exists |-> FALSE, transient |-> FALSE,
     name |-> "t", columns |-> <<>>, constraints |-> <<>>,
     hive_distribution |-> NoDistribution, hive_formats |-> None,
     table_properties |-> <<>>, with_options |-> <<>>, file_format |-> None,
     location |-> None, query |-> None, without_rowid |-> FALSE,
     like |-> None, clone |-> None, engine |-> None, comment |-> None,
     auto_increment_offset |-> None, default_charset |-> None,
     collation |-> None, on_commit |-> None, on_cluster |-> None,
     primary_key |-> None, order_by |-> None, partition_by |-> None,
     cluster_by |-> None, options |-> None, strict |-> FALSE]

Features ==
    {"or_replace", "temporary", "external", "global", "local",
     "if_not_exists", "transient", "columns", "constraints", "partitioned",
     "clustered", "skewed", "hive_formats", "table_properties",
     "with_options", "file_format", "location", "query", "without_rowid",
     "like", "clone", "engine", "comment", "auto_increment_offset",
     "default_charset", "collation", "on_commit", "on_cluster",
     "primary_key", "order_by", "partition_by", "cluster_by",
     "cluster_by_empty", "options", "options_empty", "strict"}

Opt(S, f, v) == IF f \in S THEN Some(v) ELSE None

\* The table whose populated fields are those S names.
Populated(S) ==
    [or_replace |-> "or_replace" \in S,
     temporary |-> "temporary" \in S,
     external |-> "external" \in S,
     global |-> IF "global" \in S THEN Some(TRUE)
                ELSE IF "local" \in S THEN Some(FALSE) ELSE None,
     if_not_exists |-> "if_not_exists" \in S,
     transient |-> "transient" \in S,
     name |-> "t",
     columns |-> IF "columns" \in S THEN Items("c", 1) ELSE <<>>,
     constraints |-> IF "constraints" \in S THEN Items("k", 1) ELSE <<>>,
     hive_distribution |->
         IF "partitioned" \in S THEN Partitioned(Items("p", 1))
         ELSE IF "clustered" \in S
         THEN Clustered(Items("p", 1), Items("s", 1), 1)
         ELSE IF "skewed" \in S
         THEN Skewed(Items("p", 1), Items("v", 1), TRUE)
         ELSE NoDistribution,
     hive_formats |->
         Opt(S, "hive_formats",
             HiveFormat(Some(Serde(<<"cls">>)), Some(Items("sp", 1)),
                        Some(FileFormat("ORC")), Some(<<"/hive">>))),
     table_properties |->
         IF "table_properties" \in S THEN Items("tp", 1) ELSE <<>>,
     with_options |-> IF "with_options" \in S THEN Items("w", 1) ELSE <<>>,
     file_format |-> Opt(S, "file_format", "PARQUET"),
     location |-> Opt(S, "location", <<"/data">>),
     query |-> Opt(S, "query", "query"),
     without_rowid |-> "without_rowid" \in S,
     like |-> Opt(S, "like", "l"),
     clone |-> Opt(S, "clone", "s"),
     engine |-> Opt(S, "engine", "e"),
     comment |-> Opt(S, "comment", <<"text">>),
     auto_increment_offset |-> Opt(S, "auto_increment_offset", 7),
     default_charset |-> Opt(S, "default_charset", <<"utf8">>),
     collation |-> Opt(S, "collation", <<"bin">>),
     on_commit |-> Opt(S, "on_commit", "Drop"),
     on_cluster |-> Opt(S, "on_cluster", <<"x">>),
     primary_key |-> Opt(S, "primary_key", "pk"),
     order_by |-> Opt(S, "order_by", "ob"),
     partition_by |-> Opt(S, "partition_by", "pb"),
     cluster_by |-> IF "cluster_by" \in S THEN Some(Items("cb", 1))
                    ELSE Opt(S, "cluster_by_empty", <<>>),
     options |-> IF "options" \in S THEN Some(Items("o", 1))
                 ELSE Opt(S, "options_empty", <<>>),
     strict |-> "strict" \in S]

RECURSIVE SubsetsUpTo(_, _)
SubsetsUpTo(F, k) ==
    IF k = 0 THEN {{}}
    ELSE LET P == SubsetsUpTo(F, k - 1) IN P \cup {S \cup {f} : S \in P, f \in F}

\* Any at most MaxPopulated fields populated.
GeneralValues == {Populated(S) : S \in SubsetsUpTo(Features, MaxPopulated)}

Lists(p) == {Items(p, n) : n \in 0..MaxList}

RowFormats ==
    {None, Some(Serde(<<"cls">>))} \cup {Some(Delimited(ds)) : ds \in Lists("d")}

Storages == {None, Some(IOF("in", "outf")), Some(FileFormat("ORC"))}

HiveFormatOptions ==
    {None} \cup
    {Some(HiveFormat(r, sp, st, l)) :
        r \in RowFormats, sp \in {None} \cup {Some(x) : x \in Lists("sp")},
        st \in Storages, l \in {None, Some(<<"/hive">>)}}

\* Every combination of the storage and location fields.
HiveValues ==
    {[Base EXCEPT !.external = e, !.location = l, !.file_format = ff,
                  !.hive_formats = hf] :
        e \in BOOLEAN, l \in {None, Some(<<"/data">>)},
        ff \in {None, Some("PARQUET")}, hf \in HiveFormatOptions}

Alphabet == {"a", "b", "{", "}"}

RECURSIVE Names(_)
Names(n) ==
    IF n = 0 THEN {<<>>}
    ELSE LET P == Names(n - 1) IN P \cup {Append(s, a) : s \in P, a \in Alphabet}

\* Every cluster name of at most MaxNameLen characters.
ClusterValues ==
    {[Base EXCEPT !.on_cluster = Some(s)] : s \in Names(MaxNameLen)}

\* Every combination of what decides the column/constraint block.
ColumnValues ==
    {[Base EXCEPT !.columns = cs, !.constraints = ks, !.query = q, !.like = l,
                  !.clone = cl] :
        cs \in Lists("c"), ks \in Lists("k"), q \in {None, Some("query")},
        l \in {None, Some("l")}, cl \in {None, Some("s")}}

Distributions ==
    {NoDistribution}
    \cup {Partitioned(cs) : cs \in Lists("p")}
    \cup {Clustered(cs, ss, n) :
            cs \in Lists("p"), ss \in Lists("s"), n \in (-1)..MaxBuckets}
    \cup {Skewed(cs, on, d) :
            cs \in Lists("p"), on \in Lists("v"), d \in BOOLEAN}

\* Every Hive distribution style.
DistributionValues ==
    {[Base EXCEPT !.hive_distribution = d] : d \in Distributions}

Values ==
    GeneralValues \cup HiveValues \cup ClusterValues \cup ColumnValues
    \cup DistributionValues

\* ------------------------------------------------------------- the sink

\* A write whose failure is dropped instead of returned.
Write_ErrorDropped(segs, next) ==
    \E n \in 0..NAtoms(segs) :
        /\ out' = out \o TakeAtoms(segs, n)
        /\ pc' = next
        /\ result' = result
        /\ rejected' = (rejected \/ n # NAtoms(segs))
        /\ UNCHANGED ct

\* write!(f, ...)?: the sink takes the text atom by atom and may reject any
\* of them; `?` returns the failure at once.
Write(segs, next) ==
    \E n \in 0..NAtoms(segs) :
        /\ out' = out \o TakeAtoms(segs, n)
        /\ IF n = NAtoms(segs)
           THEN pc' = next /\ result' = result /\ rejected' = rejected
           ELSE pc' = "done" /\ result' = "Err" /\ rejected' = TRUE
        /\ UNCHANGED ct

\* A write followed by the unwrap of a missing location.
WriteThenPanic(segs) ==
    \E n \in 0..NAtoms(segs) :
        /\ out' = out \o TakeAtoms(segs, n)
        /\ pc' = "done"
        /\ IF n = NAtoms(segs)
           THEN result' = "Panic" /\ rejected' = rejected
           ELSE result' = "Err" /\ rejected' = TRUE
        /\ UNCHANGED ct

\* ------------------------------------------------------------ the steps

Init ==
    /\ ct \in Values
    /\ pc = "header"
    /\ out = <<>>
    /\ result = "Running"
    /\ rejected = FALSE

Header == pc = "header" /\ Write(W_Header(ct), "on_cluster")

OnCluster == pc = "on_cluster" /\ Write(W_OnCluster(ct), "columns")

ColumnBlock == pc = "columns" /\ Write(W_ColumnBlock(ct), "without_rowid")

WithoutRowid == pc = "without_rowid" /\ Write(W_WithoutRowid(ct), "like")

Like == pc = "like" /\ Write(W_Like(ct), "clone")

Clone == pc = "clone" /\ Write(W_Clone(ct), "hive_distribution")

HiveDistribution ==
    pc = "hive_distribution" /\ Write(W_HiveDistribution(ct), "hive_formats")

HiveFormatBlock == pc = "hive_formats" /\ Write(W_HiveFormat(ct), "external")

External ==
    /\ pc = "external"
    /\ IF UnwrapPanics(ct)
       THEN WriteThenPanic(W_ExternalStoredAs(ct))
       ELSE Write(W_ExternalStoredAs(ct) \o W_ExternalLocation(ct),
                  "table_properties")

TblProperties ==
    pc = "table_properties" /\ Write(W_TblProperties(ct), "with_options")

WithOptions == pc = "with_options" /\ Write(W_WithOptions(ct), "engine")

Engine == pc = "engine" /\ Write(W_Engine(ct), "comment")

Comment == pc = "comment" /\ Write(W_Comment(ct), "auto_increment_offset")

AutoIncrement ==
    pc = "auto_increment_offset" /\ Write(W_AutoIncrement(ct), "primary_key")

PrimaryKey == pc = "primary_key" /\ Write(W_PrimaryKey(ct), "order_by")

OrderBy == pc = "order_by" /\ Write(W_OrderBy(ct), "partition_by")

PartitionBy == pc = "partition_by" /\ Write(W_PartitionBy(ct), "cluster_by")

ClusterBy == pc = "cluster_by" /\ Write(W_ClusterBy(ct), "options")

Options == pc = "options" /\ Write(W_Options(ct), "query")

Query == pc = "query" /\ Write(W_Query(ct), "default_charset")

DefaultCharset ==
    pc = "default_charset" /\ Write(W_DefaultCharset(ct), "collation")

Collation == pc = "collation" /\ Write(W_Collation(ct), "on_commit")

OnCommit == pc = "on_commit" /\ Write(W_OnCommit(ct), "strict")

Strict == pc = "strict" /\ Write(W_Strict(ct), "return")

\* dml.rs 314: Ok(()).
Return ==
    /\ pc = "return"
    /\ pc' = "done"
    /\ result' = "Ok"
    /\ UNCHANGED <<ct, out, rejected>>

Next ==
    \/ Header \/ OnCluster \/ ColumnBlock \/ WithoutRowid \/ Like \/ Clone
    \/ HiveDistribution \/ HiveFormatBlock \/ External \/ TblProperties
    \/ WithOptions \/ Engine \/ Comment \/ AutoIncrement \/ PrimaryKey
    \/ OrderBy \/ PartitionBy \/ ClusterBy \/ Options \/ Query
    \/ DefaultCharset \/ Collation \/ OnCommit \/ Strict \/ Return

Spec == Init /\ [][Next]_vars


\* ------------------------------------------------------------ properties

Finished == pc = "done" /\ result = "Ok"

\* The text written for one clause.
ClauseText(o, clause) == Text(SelectSeq(o, LAMBDA s : s.c = clause))

HasClause(o, clause) == \E i \in 1..Len(o) : o[i].c = clause

Count(t, a) == Cardinality({i \in 1..Len(t) : t[i] = a})

IsPrefix(s, t) == Len(s) <= Len(t) /\ SubSeq(t, 1, Len(s)) = s

\* The clauses in the order the specification gives them.
ClauseOrder ==
    <<"CREATE", "OR REPLACE", "EXTERNAL", "GLOBAL|LOCAL", "TEMPORARY",
      "TRANSIENT", "TABLE", "IF NOT EXISTS", "NAME", "ON CLUSTER", "COLUMNS",
      "WITHOUT ROWID", "LIKE", "CLONE", "HIVE DISTRIBUTION", "ROW FORMAT",
      "HIVE STORED AS", "SERDEPROPERTIES", "HIVE LOCATION", "EXT STORED AS",
      "EXT LOCATION", "TBLPROPERTIES", "WITH", "ENGINE", "COMMENT",
      "AUTO_INCREMENT", "PRIMARY KEY", "ORDER BY", "PARTITION BY",
      "CLUSTER BY", "OPTIONS", "AS", "DEFAULT CHARSET", "COLLATE",
      "ON COMMIT", "STRICT">>

Rank(clause) ==
    CHOOSE i \in 1..Len(ClauseOrder) : ClauseOrder[i] = clause

BoolFields ==
    {"or_replace", "temporary", "external", "if_not_exists", "transient",
     "without_rowid", "strict"}

OptionFields ==
    {"global", "hive_formats", "file_format", "location", "query", "like",
     "clone", "engine", "comment", "auto_increment_offset", "default_charset",
     "collation", "on_commit", "on_cluster", "primary_key", "order_by",
     "partition_by", "cluster_by", "options"}

IsPresent(c, f) == IF f \in BoolFields THEN c[f] ELSE IsSome(c[f])

Absent(c, f) == [c EXCEPT ![f] = IF f \in BoolFields THEN FALSE ELSE None]

\* The clauses a field governs.
OwnClauses(f) ==
    CASE f = "or_replace" -> {"OR REPLACE"}
      [] f = "temporary" -> {"TEMPORARY"}
      [] f = "external" -> {"EXTERNAL"}
      [] f = "global" -> {"GLOBAL|LOCAL"}
      [] f = "if_not_exists" -> {"IF NOT EXISTS"}
      [] f = "transient" -> {"TRANSIENT"}
      [] f = "hive_formats" ->
            {"ROW FORMAT", "HIVE STORED AS", "SERDEPROPERTIES", "HIVE LOCATION"}
      [] f = "file_format" -> {"EXT STORED AS"}
      [] f = "location" -> {"EXT LOCATION"}
      [] f = "query" -> {"AS"}
      [] f = "without_rowid" -> {"WITHOUT ROWID"}
      [] f = "like" -> {"LIKE"}
      [] f = "clone" -> {"CLONE"}
      [] f = "engine" -> {"ENGINE"}
      [] f = "comment" -> {"COMMENT"}
      [] f = "auto_increment_offset" -> {"AUTO_INCREMENT"}
      [] f = "default_charset" -> {"DEFAULT CHARSET"}
      [] f = "collation" -> {"COLLATE"}
      [] f = "on_commit" -> {"ON COMMIT"}
      [] f = "on_cluster" -> {"ON CLUSTER"}
      [] f = "primary_key" -> {"PRIMARY KEY"}
      [] f = "order_by" -> {"ORDER BY"}
      [] f = "partition_by" -> {"PARTITION BY"}
      [] f = "cluster_by" -> {"CLUSTER BY"}
      [] f = "options" -> {"OPTIONS"}
      [] f = "strict" -> {"STRICT"}

\* Rendering c with f absent succeeds and gives o without f's own clauses.
Suppressed(c, o, f) ==
    /\ ~UnwrapPanics(Absent(c, f))
    /\ W_All(Absent(c, f)) = SelectSeq(o, LAMBDA s : s.c \notin OwnClauses(f))

\* C2 as stated: making any one present optional or boolean field absent
\* removes that field's own clause from the finished text and changes
\* nothing else.
C2_Original ==
    Finished =>
        \A f \in BoolFields \cup OptionFields :
            IsPresent(ct, f) => Suppressed(ct, out, f)


\* The fields whose absence does more than remove their own clause:
\* external also gates the storage and location clauses; location is
\* unwrapped when external is set; the last of query, like, clone decides
\* the bare " ()" of a table without columns and constraints.
Entangled(c, f) ==
    \/ f = "external"
    \/ f = "location" /\ c.external
    \/ /\ f \in {"query", "like", "clone"}
       /\ Len(c.columns) = 0 /\ Len(c.constraints) = 0
       /\ \A g \in {"query", "like", "clone"} \ {f} : IsNone(c[g])

\* C2 (amended): the same for every present optional or boolean field that
\* is not entangled with another clause.
C2_Suppression ==
    Finished =>
        \A f \in BoolFields \cup OptionFields :
            IsPresent(ct, f) /\ ~Entangled(ct, f) => Suppressed(ct, out, f)

\* A finished rendering with two optional fields present, one of them query
\* beside a column list.
C2_Witness ==
    /\ Finished
    /\ IsSome(ct.query) /\ Len(ct.columns) # 0
    /\ HasClause(out, "AS") /\ HasClause(out, "COLUMNS")

\* C3: rendering an external table without a location ends in an explicit
\* failure reported to the caller: not in success, not in a crash, and not
\* with the LOCATION clause silently left out.
C3_FailsFast ==
    (pc = "done" /\ ct.external /\ IsNone(ct.location) /\ ~rejected) =>
        result \notin {"Ok", "Panic"}

ClaimedColumnBlock(c) ==
    IF Len(c.columns) # 0 \/ Len(c.constraints) # 0
    THEN <<" ", "(">> \o display_comma_separated(c.columns \o c.constraints)
         \o <<")">>
    ELSE IF IsNone(c.query) /\ IsNone(c.like) /\ IsNone(c.clone)
         THEN <<" ", "(", ")">>
         ELSE <<>>

\* C4: right after the column/constraint block, its text is " (" + the
\* columns and the constraints joined by ", " + ")" when there is a column
\* or a constraint, " ()" when there is none and no query, like or clone,
\* and nothing otherwise.
C4_ColumnBlock ==
    pc = "without_rowid" =>
        ClauseText(out, "COLUMNS") = ClaimedColumnBlock(ct)

\* Constraints without columns, and no separator before them.
C4_Witness ==
    /\ pc = "without_rowid"
    /\ Len(ct.columns) = 0 /\ Len(ct.constraints) = 2
    /\ ClauseText(out, "COLUMNS") = <<" ", "(", "k1", ",", " ", "k2", ")">>

\* Each character of a cluster name, escaped on its own.
RECURSIVE Escaped(_)
Escaped(s) ==
    IF Len(s) = 0 THEN <<>>
    ELSE (CASE s[1] = "{" -> <<"'", "{">>
            [] s[1] = "}" -> <<"}", "'">>
            [] OTHER -> <<s[1]>>) \o Escaped(Tail(s))

\* C5: right after the ON CLUSTER step, the clause is " ON CLUSTER " and the
\* name with every "{" written as "'{" and every "}" as "}'", all else
\* unchanged; without on_cluster there is no such clause.
C5_Escaping ==
    pc = "columns" =>
        IF IsSome(ct.on_cluster)
        THEN ClauseText(out, "ON CLUSTER")
                = <<" ", "ON", " ", "CLUSTER", " ">> \o Escaped(ct.on_cluster[1])
        ELSE ~HasClause(out, "ON CLUSTER")

\* The name a{b} rendered as a'{b}'.
C5_Witness ==
    /\ pc = "columns"
    /\ ct.on_cluster = Some(<<"a", "{", "b", "}">>)
    /\ ClauseText(out, "ON CLUSTER")
          = <<" ", "ON", " ", "CLUSTER", " ", "a", "'", "{", "b", "}", "'">>

\* C6: right after the distribution step of a CLUSTERED table, the clause is
\* " CLUSTERED BY (columns)", then " SORTED BY (sorted_by)" exactly when
\* sorted_by is not empty, then " INTO n BUCKETS" exactly when n > 0.
C6_Clustered ==
    (pc = "hive_formats" /\ ct.hive_distribution.kind = "CLUSTERED") =>
        LET d == ct.hive_distribution
            t == ClauseText(out, "HIVE DISTRIBUTION")
            head == <<" ", "CLUSTERED", " ", "BY", " ", "(">>
                    \o display_comma_separated(d.columns) \o <<")">>
            sorted == <<" ", "SORTED", " ", "BY", " ", "(">>
                      \o display_comma_separated(d.sorted_by) \o <<")">>
            into == <<" ", "INTO", " ", ToString(d.num_buckets), " ", "BUCKETS">>
        IN /\ IsPrefix(head, t)
           /\ (Len(d.sorted_by) # 0) <=> (Count(t, "SORTED") = 1)
           /\ (d.num_buckets > 0) <=> (Count(t, "INTO") = 1)
           /\ t = head \o (IF Len(d.sorted_by) # 0 THEN sorted ELSE <<>>)
                       \o (IF d.num_buckets > 0 THEN into ELSE <<>>)

\* CLUSTERED BY (p1, p2) SORTED BY (s1) INTO 4 BUCKETS.
C6_Witness ==
    /\ pc = "hive_formats"
    /\ ct.hive_distribution = Clustered(<<"p1", "p2">>, <<"s1">>, 4)
    /\ ClauseText(out, "HIVE DISTRIBUTION")
          = <<" ", "CLUSTERED", " ", "BY", " ", "(", "p1", ",", " ", "p2", ")",
              " ", "SORTED", " ", "BY", " ", "(", "s1", ")",
              " ", "INTO", " ", "4", " ", "BUCKETS">>

\* C7: a finished text starts with CREATE, does not end with a space and
\* holds no two spaces in a row.
C7_OutputContract ==
    Finished =>
        LET t == Text(out) IN
        /\ t[1] = "CREATE"
        /\ t[Len(t)] # " "
        /\ \A i \in 1..(Len(t) - 1) : ~(t[i] = " " /\ t[i + 1] = " ")

\* C8 as stated: a rejected write ends the rendering at once with the
\* failure, and a rendering whose every write is accepted succeeds with the
\* complete text, for every value.
C8_Original ==
    /\ rejected =>
          /\ pc = "done" /\ result = "Err"
          /\ IsPrefix(Text(out), Text(W_All(ct)))
          /\ Text(out) # Text(W_All(ct))
    /\ result = "Ok" => ~rejected
    /\ (pc = "done" /\ ~rejected) => (result = "Ok" /\ out = W_All(ct))

\* C8 (amended): the same, the success of a fully accepted rendering being
\* promised when location is present whenever external is set; without it
\* the rendering never succeeds.
C8_SinkFailure ==
    /\ rejected =>
          /\ pc = "done" /\ result = "Err"
          /\ IsPrefix(Text(out), Text(W_All(ct)))
          /\ Text(out) # Text(W_All(ct))
    /\ result = "Ok" => ~rejected
    /\ (pc = "done" /\ ~rejected /\ ~UnwrapPanics(ct)) =>
          (result = "Ok" /\ out = W_All(ct))
    /\ (pc = "done" /\ UnwrapPanics(ct)) => result # "Ok"

\* A write rejected after several clauses were written.
C8_Witness ==
    /\ rejected /\ result = "Err" /\ pc = "done"
    /\ Len(out) >= 4
    /\ HasClause(out, "COLUMNS")

\* C9: in a finished text, an external table has exactly one LOCATION, the
\* top-level one, directly after the top-level STORED AS when there is one,
\* and neither the Hive block's named file format nor its location; a table
\* that is not external has no top-level STORED AS or LOCATION and has the
\* Hive block's named file format and location when present.  The
\* INPUTFORMAT/OUTPUTFORMAT pair and WITH SERDEPROPERTIES are there when
\* present, external or not.
C9_Gating ==
    Finished =>
        LET t == Text(out)
            hasHive == IsSome(ct.hive_formats)
            h == ct.hive_formats[1]
            named == hasHive /\ IsSome(h.storage)
                     /\ h.storage[1].kind = "FileFormat"
            pair == hasHive /\ IsSome(h.storage) /\ h.storage[1].kind = "IOF"
        IN /\ ct.external =>
                /\ Count(t, "LOCATION") = 1
                /\ ClauseText(out, "EXT LOCATION")
                      = <<" ", "LOCATION", " ", "'">> \o ct.location[1] \o <<"'">>
                /\ IsSome(ct.file_format) =>
                      \E i \in 1..(Len(out) - 1) :
                          /\ out[i] = Seg("EXT STORED AS",
                                          <<" ", "STORED", " ", "AS", " ",
                                            ct.file_format[1]>>)
                          /\ out[i + 1].c = "EXT LOCATION"
                /\ IsNone(ct.file_format) => ~HasClause(out, "EXT STORED AS")
                /\ named => Count(t, h.storage[1].format) = 0
                /\ ~pair => ~HasClause(out, "HIVE STORED AS")
                /\ ~HasClause(out, "HIVE LOCATION")
           /\ ~ct.external =>
                /\ ~HasClause(out, "EXT STORED AS")
                /\ ~HasClause(out, "EXT LOCATION")
                /\ IsSome(ct.file_format) => Count(t, ct.file_format[1]) = 0
                /\ IsSome(ct.location) =>
                      \A k \in 1..Len(ct.location[1]) :
                          Count(t, ct.location[1][k]) = 0
                /\ named => ClauseText(out, "HIVE STORED AS")
                               = <<" ", "STORED", " ", "AS", " ",
                                   h.storage[1].format>>
                /\ (hasHive /\ IsSome(h.location)) =>
                      /\ Count(t, "LOCATION") = 1
                      /\ ClauseText(out, "HIVE LOCATION")
                            = <<" ", "LOCATION", " ", "'">> \o h.location[1]
                              \o <<"'">>
                /\ ~(hasHive /\ IsSome(h.location)) => Count(t, "LOCATION") = 0
           /\ pair => ClauseText(out, "HIVE STORED AS")
                         = <<" ", "STORED", " ", "AS", " ", "INPUTFORMAT", " ",
                             h.storage[1].input_format, " ", "OUTPUTFORMAT",
                             " ", h.storage[1].output_format>>
           /\ (hasHive /\ IsSome(h.serde_properties)) =>
                 ClauseText(out, "SERDEPROPERTIES")
                    = <<" ", "WITH", " ", "SERDEPROPERTIES", " ", "(">>
                      \o display_comma_separated(h.serde_properties[1])
                      \o <<")">>

\* An external table with a top-level format and location over a Hive block
\* that names a file format and a location of its own.
C9_Witness ==
    /\ Finished
    /\ ct.external /\ IsSome(ct.file_format) /\ IsSome(ct.hive_formats)
    /\ ct.hive_formats[1].storage = Some(FileFormat("ORC"))
    /\ IsSome(ct.hive_formats[1].location)
    /\ Count(Text(out), "LOCATION") = 1

Depth(t, i) ==
    Cardinality({k \in 1..i : t[k] = "("}) - Cardinality({k \in 1..i : t[k] = ")"})

\* C10: the parentheses of a finished text are balanced: no prefix closes
\* more than it opened, and the whole closes all it opened.
C10_Balanced ==
    Finished =>
        LET t == Text(out) IN
        /\ \A i \in 1..Len(t) : Depth(t, i) >= 0
        /\ Depth(t, Len(t)) = 0

=============================================================================
